---- MODULE Spec2Model ----
(***************************************************************************)
(* The use-keep store (keep in src/keep.ts and keep in src/main.ts): one   *)
(* callable that is getter and setter, a Set of listeners, and the         *)
(* synchronous notification loop of a set.  Application code (the top      *)
(* level, and the bodies of listeners while a notification pass runs) is   *)
(* the environment: it calls the store, subscribes, calls unsubscribe      *)
(* functions, returns or throws.                                           *)
(* The hooks useKeeper (src/useKeeper.ts) and usePeek (src/usePeek.ts) are  *)
(* modelled with React as their environment: it renders a component        *)
(* instance, keeps its hook state, runs its effects and unmounts it.       *)
(***************************************************************************)
EXTENDS Integers, Sequences, FiniteSets, TLC

\* ------------------------------------------------------------------ bounds
\* The per-call invocation counter of a listener saturates here.
MaxInv == 2
\* The updater c => c + 1 is applied to numbers below this one.
MaxCount == 3
\* The sets counted for one listener while it stays subscribed.
MaxSets == 3
\* The renders of one component instance.
MaxRenders == 3
\* The calls of generators given to useKeeper, over all instances.
MaxMade == 3
MaxDepth == 2

\* ------------------------------------------------------- JavaScript values
\* A value is its typeof tag and a payload that tells values of one type apart.
JS(t, n) == [t |-> t, n |-> n]

undefined == JS("undefined", 0)
null == JS("object", 0)
false == JS("boolean", 0)
emptyString == JS("string", 0)
Num(k) == JS("number", k)
\* Two object literals with different keys, {a:1} and {b:2}.
objA == JS("object", 1)
objB == JS("object", 2)

\* The unique symbol the default parameter of main.ts's state is bound to.
notProvided == JS("symbol", 0)

\* Updater functions the application passes to a set.
fnInc == JS("function", 1)      \* c => c + 1
fnUndef == JS("function", 2)    \* () => undefined
fnThrow == JS("function", 3)    \* () => { throw ... }

Falsy == {undefined, null, Num(0), false, emptyString}
Literals == Falsy \cup {Num(1), objA, objB}
Updaters == {fnInc, fnUndef, fnThrow}
\* The argument lists of a call of the store: none (get) or one value.
ArgLists == {<<>>} \cup {<<v>> : v \in Literals \cup Updaters}

\* What calling the updater f with the value v does: it returns val or throws.
Apply(f, v) ==
  IF f = fnThrow THEN [threw |-> TRUE, val |-> undefined]
  ELSE IF f = fnUndef THEN [threw |-> FALSE, val |-> undefined]
  ELSE [threw |-> FALSE, val |-> Num(v.n + 1)]

\* The application applies c => c + 1 to small numbers only.
Applicable(args, v) ==
  (Len(args) = 1 /\ args[1] = fnInc) => (v.t = "number" /\ v.n < MaxCount)

Stores == {"A", "B"}
\* The store that the application makes where it makes one store only.
OneStore == {"A"}
Listeners == {"L1", "L2", "L3"}
Impls == {"keep.ts", "main.ts"}

\* ------------------------------------------------------------ the Set type
\* A JavaScript Set keeps insertion order; it is the sequence of its elements.
Has(L, l) == \E i \in 1..Len(L) : L[i] = l
IndexOf(L, l) == CHOOSE i \in 1..Len(L) : L[i] = l
Elems(L) == {L[i] : i \in 1..Len(L)}

\* listeners.add(listener): appended unless it is an element already.
SetAdd(L, l) == IF Has(L, l) THEN L ELSE Append(L, l)

\* A delete written for an array, L.splice(L.indexOf(l), 1): indexOf gives -1
\* for an absent l and splice(-1, 1) removes the last element.
SetDeleteSplice(L, l) ==
  IF Has(L, l)
  THEN LET p == IndexOf(L, l)
       IN SubSeq(L, 1, p - 1) \o SubSeq(L, p + 1, Len(L))
  ELSE SubSeq(L, 1, Len(L) - 1)

\* listeners.delete(listener): removed when present, nothing otherwise.
SetDelete(L, l) ==
  IF Has(L, l)
  THEN LET p == IndexOf(L, l)
       IN SubSeq(L, 1, p - 1) \o SubSeq(L, p + 1, Len(L))
  ELSE L

\* A loop over an array by index: a deletion leaves the index where it is, so
\* the element after a deleted one that was passed is skipped.
IterByIndex(L, l, idx) == idx

\* The position of a running Set iterator that has passed idx elements, after
\* l is deleted from L: an element it had passed no longer counts.
IterAfterDelete(L, l, idx) ==
  IF Has(L, l) /\ IndexOf(L, l) <= idx THEN idx - 1 ELSE idx

\* ----------------------------------------------------- the state function
\* A set that stores whatever it is given, an updater included.
NextValueStored(s, cur) == [threw |-> FALSE, val |-> s, applied |-> <<>>]

\* typeof s === 'function' ? s(initialState) : s
NextValue(s, cur) ==
  IF s.t = "function"
  THEN LET r == Apply(s, cur)
       IN [threw |-> r.threw, val |-> r.val, applied |-> <<cur>>]
  ELSE [threw |-> FALSE, val |-> s, applied |-> <<>>]

\* A set that catches what the updater throws and goes on to commit and notify.
SetBranchSwallow(s, cur) ==
  LET r == NextValue(s, cur)
  IN [isSet |-> TRUE, threw |-> FALSE,
      next |-> IF r.threw THEN undefined ELSE r.val,
      ret |-> undefined, applied |-> r.applied]

\* A set that goes into the loop with the assignment not yet made.
SetBranchUncommitted(s, cur) ==
  LET r == NextValue(s, cur)
  IN [isSet |-> TRUE, threw |-> r.threw, next |-> cur,
      ret |-> undefined, applied |-> r.applied]

\* The result of the part of state(...) before the notification loop:
\* isSet: the set branch was taken; threw: the updater threw; next: the value
\* of initialState afterwards; ret: what a get returns; applied: the values
\* the updater was called with.
SetBranch(s, cur) ==
  LET r == NextValue(s, cur)
  IN [isSet |-> TRUE, threw |-> r.threw,
      next |-> IF r.threw THEN cur ELSE r.val,
      ret |-> undefined, applied |-> r.applied]

\* A get that runs the notification loop as a set does.
GetBranchNotifies(cur) ==
  [isSet |-> TRUE, threw |-> FALSE, next |-> cur, ret |-> cur, applied |-> <<>>]

GetBranch(cur) ==
  [isSet |-> FALSE, threw |-> FALSE, next |-> cur, ret |-> cur, applied |-> <<>>]

\* keep.ts: function state(s?) { if (arguments.length === 1) ... else ... }
state_keep(args, cur) ==
  IF Len(args) = 1 THEN SetBranch(args[1], cur) ELSE GetBranch(cur)

\* main.ts: the parameter s = notProvided takes its default when no argument
\* is passed and when the argument passed is undefined.
DefaultParam(args) ==
  IF Len(args) = 0 \/ args[1] = undefined THEN notProvided ELSE args[1]

\* main.ts: (s = notProvided) => { if (s !== notProvided) ... else ... }
state_main(args, cur) ==
  LET s == DefaultParam(args)
  IN IF s # notProvided THEN SetBranch(s, cur) ELSE GetBranch(cur)

state(im, args, cur) ==
  IF im = "keep.ts" THEN state_keep(args, cur) ELSE state_main(args, cur)

\* ------------------------------------------------------------------- state
VARIABLES
  impl,          \* which keep() made each store
  initialState,  \* the closure variable holding each store's current value
  listeners,     \* each store's Set of listeners
  stack,         \* the set calls in progress, the innermost last
  held,          \* per store, the listeners the application holds an unsubscribe function of
  called,        \* per store, the listeners one of whose unsubscribe functions was called
  committed,     \* history: per store, the value its latest set was to commit
  reg,           \* history: per store, the listeners whose latest subscribe has no later unsubscribe
  twice,         \* history: those of reg subscribed again while subscribed
  tally,         \* history: sets issued and notifications received, per listener
  ev,            \* the operation that led to this state, as its caller sees it
  keeper,        \* per component instance, the hook state of its useKeeper call
  made,          \* how often the generators given to useKeeper were called
  peek,          \* per component instance, the hook state of its usePeek call
  ukeep,         \* per component instance, the hook state of its useKeep call
  changed,       \* history: the latest set a component's application made changed the value
  props          \* per store, what each named property of the store function holds

\* The state of the React components that call the hooks.
hooks == <<keeper, made, peek, ukeep, changed, props>>

\* The same apart from the instances of usePeek, and apart from those of
\* useKeep.
besidesPeek == <<keeper, made, ukeep, props>>
besidesKeep == <<keeper, made, peek, props>>
\* The same apart from the properties of the stores.
besidesProps == <<keeper, made, peek, ukeep, changed>>

vars ==
  <<impl, initialState, listeners, stack, held, called, committed, reg, twice,
    tally, ev, keeper, made, peek, ukeep, changed, props>>

NoInv == [l \in Listeners |-> 0]

\* The two subscribers A and B of the counter scenario.
CounterListeners == {"L1", "L2"}

\* on: the counting is done; sets[s][l]: the calls with one argument, made
\* from the top level, that returned since l was subscribed to s; inv[s][l]:
\* the invocations of l by s since then; undef: one of the calls gave main.ts's
\* store the argument undefined; incOnly: every call with one argument so far
\* gave c => c + 1 to a store that A and B were subscribed to.
NoTally ==
  [on |-> FALSE, sets |-> [s \in Stores |-> NoInv],
   inv |-> [s \in Stores |-> NoInv], undef |-> FALSE, incOnly |-> TRUE]

TallyCall(s, args, r) ==
  IF ~tally.on \/ Len(args) # 1 \/ r.threw THEN tally
  ELSE [tally EXCEPT
          !.sets[s] = [l \in Listeners |->
                         IF Has(listeners[s], l) THEN @[l] + 1 ELSE @[l]],
          !.undef = @ \/ ~r.isSet,
          !.incOnly = /\ @
                      /\ args[1] = fnInc
                      /\ CounterListeners \subseteq Elems(listeners[s])]

TallyInvoke(s, l) ==
  IF tally.on THEN [tally EXCEPT !.inv[s][l] = @ + 1] ELSE tally

TallySubscribe(s, l) ==
  IF tally.on /\ ~Has(listeners[s], l)
  THEN [tally EXCEPT !.sets[s][l] = 0, !.inv[s][l] = 0]
  ELSE tally

TallyUnsubscribe(s, l) ==
  IF tally.on
  THEN [tally EXCEPT !.sets[s][l] = 0, !.inv[s][l] = 0, !.incOnly = FALSE]
  ELSE tally

\* A set call in its notification loop: idx elements of the Set passed by the
\* iterator, cur the listener now running ("none" between two listeners), inv
\* how often this loop invoked each listener, mutated whether subscribe or
\* unsubscribe was called on the store since the loop began, kept the
\* listeners in the Set since the loop began, removed whether a listener was
\* deleted from the Set since then.
NewFrame(s, args) ==
  [store |-> s, args |-> args, idx |-> 0, cur |-> "none", inv |-> NoInv,
   mutated |-> FALSE, kept |-> Elems(listeners[s]), removed |-> FALSE]

\* op: "call" (a set call entered its loop), "returned" (a call of the store
\* returned: ret its value, inv, mutated, kept and removed those of its loop),
\* "updaterThrew"
\* and "listenerThrew" (a call of the store ended by that exception),
\* "keep" (the factory returned ret, given the value args and a mapping with
\* the keys keys), "assigned" (store.assign returned ret), "keepThrew",
\* "assignThrew", "typeError" (the property called is no function),
\* "givenCalled" (the property l called holds a function of a mapping),
\* "subscribe", "unsubscribe" (stale: the unsubscribe function had been called
\* before; was: l was in the Set), "invoke", "listenerReturn".
NoEv ==
  [op |-> "init", store |-> "none", args |-> <<>>, ret |-> undefined,
   applied |-> <<>>, inv |-> NoInv, mutated |-> FALSE, kept |-> {},
   removed |-> FALSE, l |-> "none", stale |-> FALSE, was |-> FALSE,
   keys |-> <<>>]

Top == stack[Len(stack)]
Idle == stack = <<>>
InBody == stack # <<>> /\ Top.cur # "none"
\* Application code runs at the top level or in the body of a listener.
CanAct == Idle \/ InBody

\* ------------------------------------------------------------- useKeeper
Components == {"c1", "c2"}

\* const UNINITIALIZED = Symbol('uninitialized')
UNINITIALIZED == JS("symbol", 1)

\* Generators a component gives to useKeeper: one with a side effect that
\* can be observed, () => ++n, and those that return undefined, null, 0, false.
genCounter == JS("function", 4)
genNull == JS("function", 5)
genZero == JS("function", 6)
genFalse == JS("function", 7)
Generators == {genCounter, fnUndef, genNull, genZero, genFalse}

\* What the generator g returns when generators were called n times before.
Generate(g, n) ==
  IF g = genCounter THEN Num(n + 1)
  ELSE IF g = fnUndef THEN undefined
  ELSE IF g = genNull THEN null
  ELSE IF g = genZero THEN Num(0)
  ELSE false

\* A marker that is an emptiness check on the result: !keeper.current
IsFalsyMarker(current) == current = UNINITIALIZED \/ current \in Falsy

\* keeper.current === UNINITIALIZED
IsUninitialized(current) == current = UNINITIALIZED

\* A hook that keeps nothing: return keeperGen()
useKeeperNoRef(current, keeperGen, n) ==
  [current |-> Generate(keeperGen, n), calls |-> 1]

\* The body of useKeeper after useRef: current is keeper.current before and
\* after (the value returned), calls how often keeperGen was called.
useKeeper(current, keeperGen, n) ==
  IF IsUninitialized(current)
  THEN [current |-> Generate(keeperGen, n), calls |-> 1]
  ELSE [current |-> current, calls |-> 0]

\* A component instance that is not mounted: alive is whether React holds
\* hook state for it, gen the generator it passes, current its ref, calls how
\* often its generator was called, renders its renders so far, ret what
\* useKeeper returned last and first what it returned on the first render.
NoKeeper ==
  [alive |-> FALSE, gen |-> fnUndef, current |-> UNINITIALIZED, calls |-> 0,
   renders |-> 0, ret |-> undefined, first |-> undefined]

\* --------------------------------------------------------------- usePeek
\* The component of the README's example: usePeek(0, store => ({ increment:
\* () => store(c => c + 1), decrement: ... })).
PeekInstances == {"c1", "c2"}
PeekInitial == Num(0)
extension == JS("function", 8)
\* The names of the methods that extension(store) returns.
ExtensionResult == {"increment", "decrement"}

\* The store of the instance and the listener () => dispatch() of its effect:
\* every call of init makes a store, every run of the effect a listener.
\* (PeekStoreShared: one store made at module level and used by every
\* instance.)
PeekStoreShared(c) == "A"

PeekStore(c) == IF c = "c1" THEN "A" ELSE "B"
PeekListener(c) == IF c = "c1" THEN "L1" ELSE "L2"

\* keep of keep.ts called with the arguments args: it has the one parameter
\* initialState, any further argument is ignored; the function it returns has
\* the property subscribe and no other.
keep_ts(args) == [initialState |-> args[1], props |-> {"subscribe"}]

\* init(initial_value, extension)(): [storeInstance(), storeInstance]
init(initial_value, ext) ==
  LET storeInstance == keep_ts(<<initial_value, ext>>)
  IN [value |-> storeInstance.initialState, props |-> storeInstance.props]

\* A reducer that makes the pair anew from another store.
reducerOtherStore(st) ==
  LET other == IF st.store = "A" THEN "B" ELSE "A"
  IN [value |-> GetBranch(initialState[other]).ret, store |-> other]

\* reducer(state) = [state[1](), state[1]]: the value read from the store,
\* and the store of the state given.
reducer(st) ==
  [value |-> GetBranch(initialState[st.store]).ret, store |-> st.store]

\* phase: "unmounted" (never rendered), "rendered" (first render committed,
\* the effect not yet run), "mounted" (the effect has subscribed), "gone"
\* (unmounted); store, value and props: state[1], state[0] and the properties
\* of state[1]; queue: a dispatch waits for a render; ret: the value the hook
\* returned last; early: the store was set before the effect subscribed.
NoPeek ==
  [phase |-> "unmounted", store |-> "none", value |-> undefined, props |-> {},
   queue |-> FALSE, ret |-> undefined, early |-> FALSE]

\* ------------------------------------------------- the store's properties
\* The property names that matter: those the factory attaches, a method name
\* of an application's mapping, and a built-in property of every function.
Keys == {"subscribe", "use", "assign", "increment", "name"}

\* What a property of the store function holds: "own", the function that the
\* factory attached under that name; "given", the function of a mapping;
\* "builtin", the function's read-only name; "absent".
OwnProps(im) ==
  [k \in Keys |->
     IF k = "subscribe" THEN "own"
     ELSE IF k \in {"use", "assign"} /\ im = "main.ts" THEN "own"
     ELSE IF k = "name" THEN "builtin"
     ELSE "absent"]

\* A methods mapping: an object whose own keys, in insertion order, each hold
\* a function of the application.
Mapping(ks) == [t |-> "object", keys |-> ks]
Mappings ==
  {Mapping(ks) : ks \in {<<>>, <<"increment">>, <<"subscribe">>, <<"use">>,
                         <<"assign">>, <<"name">>, <<"increment", "name">>}}

\* The store function as a value: a reference to the store s.
StoreRef(s) == JS("function", IF s = "A" THEN 10 ELSE 11)

RECURSIVE AssignKeys(_, _)
\* Object.assign sets the keys one after the other; setting a read-only
\* property throws a TypeError, and the keys set before it stay set.
AssignKeys(p, ks) ==
  IF ks = <<>> THEN [props |-> p, threw |-> FALSE]
  ELSE IF p[Head(ks)] = "builtin" THEN [props |-> p, threw |-> TRUE]
  ELSE AssignKeys([p EXCEPT ![Head(ks)] = "given"], Tail(ks))

\* Object.assign(target, k): target with the properties p, returned as
\* target; a source that is undefined or null is skipped.
ObjectAssign(target, p, k) ==
  LET r == IF k.t = "object" THEN AssignKeys(p, k.keys)
           ELSE [props |-> p, threw |-> FALSE]
  IN [props |-> r.props, threw |-> r.threw, ret |-> target]

\* An assign that merges into a new object: Object.assign({}, this, k)
assignCopy(this, p, k) == [props |-> p, threw |-> FALSE, ret |-> JS("object", 1)]

\* state.assign = function(this, k) { return Object.assign(this, k) }
assign(this, p, k) == ObjectAssign(this, p, k)

\* A factory that drops its second argument.
keep_mainOneArgument(s, args) ==
  [initialState |-> args[1], listeners |-> <<>>,
   props |-> OwnProps("main.ts"), threw |-> FALSE, ret |-> StoreRef(s)]

\* keep(initialState, k?) of main.ts, making the store s: the closure
\* variables, the properties attached, and what it returns.
keep_main(s, args) ==
  LET made1 == [initialState |-> args[1], listeners |-> <<>>,
                props |-> OwnProps("main.ts"), threw |-> FALSE,
                ret |-> StoreRef(s)]
      k == IF Len(args) >= 2 THEN args[2] ELSE undefined
  IN IF k.t = "object"
     THEN LET r == assign(StoreRef(s), made1.props, k)
          IN [made1 EXCEPT !.props = r.props, !.threw = r.threw, !.ret = r.ret]
     ELSE made1

\* ---------------------------------------------------------------- useKeep
\* store(): the snapshot that the host reads.
Snapshot(s) == state(impl[s], <<>>, initialState[s]).ret

\* useKeep(store): the arguments of useSyncExternalStore(store.subscribe,
\* store, store); subscribe is what the property subscribe holds.
useKeep(s) ==
  [subscribe |-> props[s]["subscribe"], getSnapshot |-> s,
   getServerSnapshot |-> s]

\* A method that reads the store and subscribes to nothing: () => state()
useNoAdapter(s) ==
  [subscribe |-> "absent", getSnapshot |-> s, getServerSnapshot |-> s]

\* state.use = () => useKeep(state)
use(s) == useKeep(s)

\* The two components of the application read the one store; handleStoreChange
\* of each is the listener that the host subscribes.
KeepListener(c) == IF c = "c1" THEN "L1" ELSE "L2"

\* phase as for usePeek; store and args: the store given to the hook and what
\* the hook gave the host; value: the snapshot of the latest render, which the
\* hook returned; force: the host has scheduled a render of the instance.
NoUse ==
  [phase |-> "unmounted", store |-> "none",
   args |-> [subscribe |-> "absent", getSnapshot |-> "none",
             getServerSnapshot |-> "none"],
   value |-> undefined, force |-> FALSE]

\* No component has rendered, no store was extended.
NoHooks ==
  /\ keeper = [c \in Components |-> NoKeeper]
  /\ made = 0
  /\ peek = [c \in Components |-> NoPeek]
  /\ ukeep = [c \in Components |-> NoUse]
  /\ changed = FALSE
  /\ props = [s \in Stores |-> OwnProps(impl[s])]

\* What the contract of a call with one argument is to commit: the literal, or
\* the updater's result; nothing when the updater throws or no argument is given.
Contract(args, cur) ==
  IF Len(args) = 0 THEN cur
  ELSE IF args[1].t # "function" THEN args[1]
  ELSE IF Apply(args[1], cur).threw THEN cur
  ELSE Apply(args[1], cur).val

\* Either implementation makes the one store; a store that is not made is
\* left as keep.ts's.
OneImpl ==
  {[s \in Stores |-> IF s \in OneStore THEN im ELSE "keep.ts"] : im \in Impls}

\* keep(initialState): the store starts with the value given and no listener;
\* a store that is not made is left as one of keep(0).
InitOf(vals) ==
  /\ impl \in OneImpl
  /\ \E v \in vals :
       initialState = [s \in Stores |-> IF s \in OneStore THEN v ELSE Num(0)]
  /\ listeners = [s \in Stores |-> <<>>]
  /\ stack = <<>>
  /\ held = [s \in Stores |-> {}]
  /\ called = [s \in Stores |-> {}]
  /\ committed = initialState
  /\ reg = [s \in Stores |-> {}]
  /\ twice = [s \in Stores |-> {}]
  /\ tally = NoTally
  /\ ev = NoEv

Init == InitOf(Literals) /\ NoHooks

\* ----------------------------------------------------------------- actions
\* store(...args): a get, or a set up to the start of its notification loop.
Call(s, args) ==
  /\ CanAct
  /\ Applicable(args, initialState[s])
  /\ LET r == state(impl[s], args, initialState[s])
     IN /\ initialState' = [initialState EXCEPT ![s] = r.next]
        /\ stack' = IF r.threw THEN <<>>
                    ELSE IF r.isSet THEN Append(stack, NewFrame(s, args))
                    ELSE stack
        /\ ev' = [NoEv EXCEPT
                    !.op = IF r.threw THEN "updaterThrew"
                           ELSE IF r.isSet THEN "call" ELSE "returned",
                    !.store = s, !.args = args, !.ret = r.ret,
                    !.applied = r.applied]
  /\ committed' = [committed EXCEPT ![s] = Contract(args, initialState[s])]
  /\ tally' = TallyCall(s, args, state(impl[s], args, initialState[s]))
  /\ UNCHANGED <<impl, listeners, held, called, reg, twice>>

\* for (const listener of listeners) listener(): the iterator yields the next
\* element of the Set and the loop calls it.
Invoke ==
  /\ stack # <<>>
  /\ Top.cur = "none"
  /\ Top.idx < Len(listeners[Top.store])
  /\ LET l == listeners[Top.store][Top.idx + 1]
     IN /\ stack' = [stack EXCEPT ![Len(stack)] =
                       [@ EXCEPT !.idx = @ + 1, !.cur = l,
                                 !.inv[l] = IF @ < MaxInv THEN @ + 1 ELSE @]]
        /\ ev' = [NoEv EXCEPT !.op = "invoke", !.store = Top.store, !.l = l]
        /\ tally' = TallyInvoke(Top.store, l)
  /\ UNCHANGED <<impl, initialState, listeners, held, called, committed, reg, twice>>

\* The running listener returns; the loop goes on.
ListenerReturn ==
  /\ InBody
  /\ stack' = [stack EXCEPT ![Len(stack)].cur = "none"]
  /\ ev' = [NoEv EXCEPT !.op = "listenerReturn", !.store = Top.store]
  /\ UNCHANGED <<impl, initialState, listeners, held, called, committed, reg, twice,
                 tally>>

\* A loop that catches what a listener throws and goes on.
ListenerThrowCaught ==
  /\ InBody
  /\ stack' = [stack EXCEPT ![Len(stack)].cur = "none"]
  /\ ev' = [NoEv EXCEPT !.op = "listenerThrew", !.store = Top.store,
                        !.l = Top.cur,
                        !.args = stack[1].args, !.inv = stack[1].inv,
                        !.mutated = stack[1].mutated, !.kept = stack[1].kept,
                        !.removed = stack[1].removed]
  /\ UNCHANGED <<impl, initialState, listeners, held, called, committed, reg, twice,
                 tally>>

\* The running listener throws: nothing in the store catches, the loop and
\* the set call are left by the exception.
ListenerThrow ==
  /\ InBody
  /\ stack' = <<>>
  /\ ev' = [NoEv EXCEPT !.op = "listenerThrew", !.store = Top.store,
                        !.l = Top.cur,
                        !.args = stack[1].args, !.inv = stack[1].inv,
                        !.mutated = stack[1].mutated, !.kept = stack[1].kept,
                        !.removed = stack[1].removed]
  /\ UNCHANGED <<impl, initialState, listeners, held, called, committed, reg, twice,
                 tally>>

\* The iterator is exhausted: the set call returns undefined.
Return ==
  /\ stack # <<>>
  /\ Top.cur = "none"
  /\ Top.idx >= Len(listeners[Top.store])
  /\ stack' = SubSeq(stack, 1, Len(stack) - 1)
  /\ ev' = [NoEv EXCEPT !.op = "returned", !.store = Top.store, !.args = Top.args,
                        !.inv = Top.inv, !.mutated = Top.mutated,
                        !.kept = Top.kept, !.removed = Top.removed]
  /\ UNCHANGED <<impl, initialState, listeners, held, called, committed, reg, twice,
                 tally>>

\* Every loop running on store s sees that its Set was subscribed to or
\* unsubscribed from.
Touched(stk, s) ==
  [i \in 1..Len(stk) |->
     IF stk[i].store = s THEN [stk[i] EXCEPT !.mutated = TRUE] ELSE stk[i]]

\* A subscribe whose Set is one for the module: every store gets the listener.
SubscribeShared(s, l) ==
  /\ CanAct
  /\ listeners' = [o \in Stores |-> SetAdd(listeners[o], l)]
  /\ held' = [held EXCEPT ![s] = @ \cup {l}]
  /\ stack' = Touched(stack, s)
  /\ reg' = [reg EXCEPT ![s] = @ \cup {l}]
  /\ twice' = [twice EXCEPT ![s] = IF l \in reg[s] THEN @ \cup {l} ELSE @]
  /\ ev' = [NoEv EXCEPT !.op = "subscribe", !.store = s, !.l = l,
                        !.was = Has(listeners[s], l)]
  /\ tally' = TallySubscribe(s, l)
  /\ UNCHANGED <<impl, initialState, called, committed>>

\* store.subscribe(listener)
Subscribe(s, l) ==
  /\ CanAct
  /\ listeners' = [listeners EXCEPT ![s] = SetAdd(@, l)]
  /\ held' = [held EXCEPT ![s] = @ \cup {l}]
  /\ stack' = Touched(stack, s)
  /\ reg' = [reg EXCEPT ![s] = @ \cup {l}]
  /\ twice' = [twice EXCEPT ![s] = IF l \in reg[s] THEN @ \cup {l} ELSE @]
  /\ ev' = [NoEv EXCEPT !.op = "subscribe", !.store = s, !.l = l,
                        !.was = Has(listeners[s], l)]
  /\ tally' = TallySubscribe(s, l)
  /\ UNCHANGED <<impl, initialState, called, committed>>

\* The application calls an unsubscribe function that subscribe(l) of store s
\* returned: one it has called before (stale), or any one of them.
Unsubscribe(s, l, stale) ==
  /\ CanAct
  /\ IF stale THEN l \in called[s] ELSE l \in held[s]
  /\ listeners' = [listeners EXCEPT ![s] = SetDelete(@, l)]
  /\ called' = [called EXCEPT ![s] = @ \cup {l}]
  /\ stack' = [i \in 1..Len(stack) |->
                 IF stack[i].store = s
                 THEN [stack[i] EXCEPT
                         !.mutated = TRUE,
                         !.kept = @ \ {l},
                         !.removed = @ \/ Has(listeners[s], l),
                         !.idx = IterAfterDelete(listeners[s], l, @)]
                 ELSE stack[i]]
  /\ reg' = [reg EXCEPT ![s] = @ \ {l}]
  /\ twice' = [twice EXCEPT ![s] = @ \ {l}]
  /\ ev' = [NoEv EXCEPT !.op = "unsubscribe", !.store = s, !.l = l,
                        !.stale = stale, !.was = Has(listeners[s], l)]
  /\ tally' = TallyUnsubscribe(s, l)
  /\ UNCHANGED <<impl, initialState, held, committed>>

\* A render of component c, which calls useKeeper(g): React's useRef gives a
\* new ref holding UNINITIALIZED on the first render of an instance and the
\* instance's ref on every later one.
KeeperRender(c, g) ==
  LET k == keeper[c]
      r == useKeeper(k.current, g, made)
  IN /\ k.renders < MaxRenders
     /\ k.alive => g = k.gen
     /\ made + r.calls <= MaxMade
     /\ keeper' = [keeper EXCEPT ![c] =
                     [alive |-> TRUE, gen |-> g, current |-> r.current,
                      calls |-> k.calls + r.calls, renders |-> k.renders + 1,
                      ret |-> r.current,
                      first |-> IF k.alive THEN k.first ELSE r.current]]
     /\ made' = made + r.calls
     /\ ev' = [NoEv EXCEPT !.op = "render", !.l = c]
     /\ UNCHANGED <<impl, initialState, listeners, stack, held, called,
                    committed, reg, twice, tally, peek, ukeep, changed, props>>

\* The instance unmounts: React discards its hook state, the ref included.
KeeperUnmount(c) ==
  /\ keeper[c].alive
  /\ keeper' = [keeper EXCEPT ![c] = NoKeeper]
  /\ ev' = [NoEv EXCEPT !.op = "unmount", !.l = c]
  /\ UNCHANGED <<impl, initialState, listeners, stack, held, called,
                 committed, reg, twice, tally, made, peek, ukeep, changed, props>>

\* The first render of an instance that calls usePeek: useReducer calls the
\* initializer, which makes the store; the hook returns [state[0], state[1]].
PeekMount(c) ==
  /\ Idle
  /\ peek[c].phase = "unmounted"
  /\ LET st == init(PeekInitial, extension)
         s == PeekStore(c)
     IN /\ peek' = [peek EXCEPT ![c] =
                      [NoPeek EXCEPT !.phase = "rendered", !.store = s,
                                     !.value = st.value, !.props = st.props,
                                     !.ret = st.value]]
        /\ initialState' = [initialState EXCEPT ![s] = st.value]
        /\ committed' = [committed EXCEPT ![s] = st.value]
        /\ listeners' = [listeners EXCEPT ![s] = <<>>]
  /\ ev' = [NoEv EXCEPT !.op = "render", !.l = c]
  /\ UNCHANGED <<impl, stack, held, called, reg, twice, tally, changed>>
  /\ UNCHANGED besidesPeek

\* useEffect(() => state[1].subscribe(() => dispatch()), []): React runs the
\* effect after the first render is committed.
PeekEffect(c) ==
  /\ Idle
  /\ peek[c].phase = "rendered"
  /\ Subscribe(peek[c].store, PeekListener(c))
  /\ peek' = [peek EXCEPT ![c].phase = "mounted"]
  /\ UNCHANGED <<besidesPeek, changed>>

\* Application code (an event handler, an effect of a child) calls the store
\* that the hook returned.
PeekCall(c, args) ==
  /\ Idle
  /\ peek[c].phase # "unmounted"
  /\ Call(peek[c].store, args)
  /\ peek' = [peek EXCEPT ![c].early =
                 @ \/ (peek[c].phase = "rendered" /\ Len(args) = 1)]
  /\ changed' = (initialState' # initialState)
  /\ UNCHANGED besidesPeek

\* Application code calls counter.increment(): the method of the extension
\* when the store has it, a TypeError (counter.increment is not a function)
\* when it has not.
PeekCallMethod(c, m) ==
  /\ Idle
  /\ peek[c].phase # "unmounted"
  /\ IF m \in peek[c].props
     THEN /\ Call(peek[c].store, <<fnInc>>)
          /\ changed' = (initialState' # initialState)
          /\ UNCHANGED <<besidesPeek, peek>>
     ELSE /\ ev' = [NoEv EXCEPT !.op = "typeError", !.store = peek[c].store]
          /\ UNCHANGED <<impl, initialState, listeners, stack, held, called,
                         committed, reg, twice, tally, hooks>>

\* The listener () => dispatch() runs: React queues the action and schedules
\* a render of the instance.
PeekDispatch(c) ==
  /\ InBody
  /\ Top.store = peek[c].store
  /\ Top.cur = PeekListener(c)
  /\ ListenerReturn
  /\ peek' = [peek EXCEPT ![c].queue = TRUE]
  /\ UNCHANGED <<besidesPeek, changed>>

\* A render of the mounted instance, scheduled by a dispatch or caused by its
\* parent: useReducer applies the reducer when an action is queued and
\* returns the state it has otherwise.
PeekRender(c, parent) ==
  /\ Idle
  /\ peek[c].phase = "mounted"
  /\ parent \/ peek[c].queue
  /\ LET st == [value |-> peek[c].value, store |-> peek[c].store]
         nx == IF peek[c].queue THEN reducer(st) ELSE st
     IN /\ peek' = [peek EXCEPT ![c].value = nx.value, ![c].store = nx.store,
                                ![c].ret = nx.value, ![c].queue = FALSE]
        /\ ev' = [NoEv EXCEPT !.op = "render", !.l = c, !.store = nx.store,
                              !.ret = nx.value]
  /\ UNCHANGED <<impl, initialState, listeners, stack, held, called, committed,
                 reg, twice, tally, besidesPeek, changed>>

\* An unmount after an effect that returns no cleanup: the listener stays.
PeekUnmountNoCleanup(c) ==
  /\ Idle
  /\ peek[c].phase = "mounted"
  /\ peek' = [peek EXCEPT ![c].phase = "gone", ![c].queue = FALSE]
  /\ ev' = [NoEv EXCEPT !.op = "unmount", !.l = c]
  /\ UNCHANGED <<impl, initialState, listeners, stack, held, called, committed,
                 reg, twice, tally, besidesPeek, changed>>

\* The instance unmounts: React calls what the effect returned, the
\* unsubscribe function, and drops the queue.
PeekUnmount(c) ==
  /\ Idle
  /\ peek[c].phase = "mounted"
  /\ Unsubscribe(peek[c].store, PeekListener(c), FALSE)
  /\ peek' = [peek EXCEPT ![c].phase = "gone", ![c].queue = FALSE]
  /\ UNCHANGED <<besidesPeek, changed>>

\* The first render of an instance that calls useKeep(store), or store.use()
\* where the store has the method: the host reads the snapshot and the hook
\* returns it.
UseMount(c, s, method) ==
  /\ Idle
  /\ ukeep[c].phase = "unmounted"
  /\ method => props[s]["use"] = "own"
  /\ LET a == IF method THEN use(s) ELSE useKeep(s)
     IN /\ ukeep' = [ukeep EXCEPT ![c] =
                       [NoUse EXCEPT !.phase = "rendered", !.store = s, !.args = a,
                                     !.value = Snapshot(a.getSnapshot)]]
        /\ ev' = [NoEv EXCEPT !.op = IF method THEN "use" ELSE "useKeep",
                              !.l = c, !.store = s,
                              !.ret = Snapshot(a.getSnapshot)]
  /\ UNCHANGED <<impl, initialState, listeners, stack, held, called, committed,
                 reg, twice, tally, besidesKeep, changed>>

\* A host that subscribes and does not read the snapshot again.
UseEffectNoCheck(c) ==
  /\ Idle
  /\ ukeep[c].phase = "rendered"
  /\ IF ukeep[c].args.subscribe = "own"
     THEN Subscribe(ukeep[c].store, KeepListener(c))
     ELSE /\ ev' = [NoEv EXCEPT !.op = "subscribeGiven", !.store = ukeep[c].store]
          /\ UNCHANGED <<impl, initialState, listeners, stack, held, called,
                         committed, reg, twice, tally>>
  /\ ukeep' = [ukeep EXCEPT ![c].phase = "mounted"]
  /\ UNCHANGED <<besidesKeep, changed>>

\* The host's effects after the first render is committed: it subscribes
\* handleStoreChange with the subscribe function it was given, then reads
\* the snapshot again and schedules a render when it is not the one rendered.
UseEffect(c) ==
  /\ Idle
  /\ ukeep[c].phase = "rendered"
  /\ IF ukeep[c].args.subscribe = "own"
     THEN Subscribe(ukeep[c].store, KeepListener(c))
     ELSE /\ ev' = [NoEv EXCEPT !.op = "subscribeGiven", !.store = ukeep[c].store]
          /\ UNCHANGED <<impl, initialState, listeners, stack, held, called,
                         committed, reg, twice, tally>>
  /\ ukeep' = [ukeep EXCEPT
                 ![c].phase = "mounted",
                 ![c].force = Snapshot(ukeep[c].args.getSnapshot) # ukeep[c].value]
  /\ UNCHANGED <<besidesKeep, changed>>

\* Application code calls the store that the components read.
UseCall(s, args) ==
  /\ Idle
  /\ Call(s, args)
  /\ changed' = (initialState' # initialState)
  /\ UNCHANGED <<besidesKeep, ukeep>>

\* handleStoreChange, the listener of the host, runs: it reads the snapshot
\* and schedules a render of the instance when it is not the one rendered.
UseHandleStoreChange(c) ==
  /\ InBody
  /\ Top.store = ukeep[c].store
  /\ Top.cur = KeepListener(c)
  /\ ListenerReturn
  /\ ukeep' = [ukeep EXCEPT ![c].force =
                 @ \/ Snapshot(ukeep[c].args.getSnapshot) # ukeep[c].value]
  /\ UNCHANGED <<besidesKeep, changed>>

\* A render of the mounted instance, scheduled by the host or caused by its
\* parent: the hook returns the snapshot read in this render.
UseRender(c, parent) ==
  /\ Idle
  /\ ukeep[c].phase = "mounted"
  /\ parent \/ ukeep[c].force
  /\ ukeep' = [ukeep EXCEPT ![c].value = Snapshot(ukeep[c].args.getSnapshot),
                            ![c].force = FALSE]
  /\ ev' = [NoEv EXCEPT !.op = IF ukeep[c].force THEN "rerender" ELSE "render",
                        !.l = c, !.store = ukeep[c].store,
                        !.ret = Snapshot(ukeep[c].args.getSnapshot)]
  /\ UNCHANGED <<impl, initialState, listeners, stack, held, called, committed,
                 reg, twice, tally, besidesKeep, changed>>

\* A render on the server: the host reads the server snapshot and runs no
\* effect.
UseServerRender(s) ==
  /\ Idle
  /\ ev' = [NoEv EXCEPT !.op = "serverRender", !.store = s,
                        !.ret = Snapshot(useKeep(s).getServerSnapshot)]
  /\ UNCHANGED <<impl, initialState, listeners, stack, held, called, committed,
                 reg, twice, tally, hooks>>

\* The instance unmounts: the host calls what subscribe returned.
UseUnmount(c) ==
  /\ Idle
  /\ ukeep[c].phase = "mounted"
  /\ IF ukeep[c].args.subscribe = "own"
     THEN Unsubscribe(ukeep[c].store, KeepListener(c), FALSE)
     ELSE /\ ev' = [NoEv EXCEPT !.op = "unmount", !.l = c]
          /\ UNCHANGED <<impl, initialState, listeners, stack, held, called,
                         committed, reg, twice, tally>>
  /\ ukeep' = [ukeep EXCEPT ![c].phase = "gone", ![c].force = FALSE]
  /\ UNCHANGED <<besidesKeep, changed>>

\* The store s is made: it has the property subscribe.
Made(s) == props[s]["subscribe"] # "absent"
NotMade == [k \in Keys |-> "absent"]

\* The application makes the store s with keep(...args) of the store's
\* implementation; keep.ts's has the one parameter.
Create(s, args) ==
  /\ Idle
  /\ ~Made(s)
  /\ LET r == IF impl[s] = "main.ts" THEN keep_main(s, args)
              ELSE [initialState |-> keep_ts(args).initialState,
                    listeners |-> <<>>, props |-> OwnProps("keep.ts"),
                    threw |-> FALSE, ret |-> StoreRef(s)]
         ks == IF Len(args) >= 2 THEN args[2].keys ELSE <<>>
     IN IF r.threw
        THEN /\ ev' = [NoEv EXCEPT !.op = "keepThrew", !.store = s,
                                   !.args = <<args[1]>>, !.keys = ks]
             /\ UNCHANGED <<initialState, committed, listeners, props>>
        ELSE /\ initialState' = [initialState EXCEPT ![s] = r.initialState]
             /\ committed' = [committed EXCEPT ![s] = r.initialState]
             /\ listeners' = [listeners EXCEPT ![s] = r.listeners]
             /\ props' = [props EXCEPT ![s] = r.props]
             /\ ev' = [NoEv EXCEPT !.op = "keep", !.store = s, !.ret = r.ret,
                                   !.args = <<args[1]>>, !.keys = ks]
  /\ UNCHANGED <<impl, stack, held, called, reg, twice, tally, besidesProps>>

\* store.assign(k): the method of the factory when the property holds it, a
\* function of the application when a mapping has replaced it, a TypeError
\* when the store has no such property.
Assign(s, k) ==
  /\ Idle
  /\ Made(s)
  /\ IF props[s]["assign"] = "own"
     THEN LET r == assign(StoreRef(s), props[s], k)
          IN /\ props' = [props EXCEPT ![s] = r.props]
             /\ ev' = [NoEv EXCEPT
                         !.op = IF r.threw THEN "assignThrew" ELSE "assigned",
                         !.store = s, !.keys = k.keys,
                         !.ret = IF r.threw THEN undefined ELSE r.ret]
     ELSE /\ ev' = [NoEv EXCEPT
                      !.op = IF props[s]["assign"] = "given" THEN "givenCalled"
                             ELSE "typeError",
                      !.store = s, !.l = "assign", !.keys = k.keys]
          /\ UNCHANGED props
  /\ UNCHANGED <<impl, initialState, listeners, stack, held, called, committed,
                 reg, twice, tally, besidesProps>>

\* store.subscribe(l): the subscribe of the factory when the property holds
\* it; when a mapping has replaced it, the mapping's function, which is not
\* the closure's and leaves the Set as it is.
SubscribeProperty(s, l) ==
  /\ Idle
  /\ Made(s)
  /\ IF props[s]["subscribe"] = "own"
     THEN Subscribe(s, l)
     ELSE /\ ev' = [NoEv EXCEPT !.op = "givenCalled", !.store = s, !.l = l]
          /\ UNCHANGED <<impl, initialState, listeners, stack, held, called,
                         committed, reg, twice, tally>>
  /\ UNCHANGED hooks

\* ---------------------------------------------------------- specifications
\* The application calls the store with every kind of argument from the top
\* level; listeners return or throw.
Next ==
  \/ \E s \in OneStore, args \in ArgLists : Idle /\ Call(s, args) /\ UNCHANGED hooks
  \/ Invoke /\ UNCHANGED hooks
  \/ ListenerReturn /\ UNCHANGED hooks
  \/ ListenerThrow /\ UNCHANGED hooks
  \/ Return /\ UNCHANGED hooks
  \/ \E s \in OneStore, l \in Listeners : Idle /\ Subscribe(s, l) /\ UNCHANGED hooks
  \/ \E s \in OneStore, l \in Listeners, stale \in BOOLEAN :
        Idle /\ Unsubscribe(s, l, stale) /\ UNCHANGED hooks

Spec == Init /\ [][Next]_vars

\* Listeners also read the store, subscribe and unsubscribe while the
\* notification loop runs; the values are few.
FewArgLists == {<<>>, <<undefined>>, <<Num(1)>>}

\* The listeners that the body of a listener (any of the three) subscribes and
\* unsubscribes; the top level does so with every listener.
BodyTargets == {"L1", "L2"}

InitListeners == InitOf({Num(1)}) /\ NoHooks

NextListeners ==
  \/ \E s \in OneStore, args \in FewArgLists : Idle /\ Call(s, args) /\ UNCHANGED hooks
  \/ \E s \in OneStore : InBody /\ Call(s, <<>>) /\ UNCHANGED hooks
  \/ Invoke /\ UNCHANGED hooks
  \/ ListenerReturn /\ UNCHANGED hooks
  \/ ListenerThrow /\ UNCHANGED hooks
  \/ Return /\ UNCHANGED hooks
  \/ \E s \in OneStore, l \in Listeners :
        (Idle \/ l \in BodyTargets) /\ Subscribe(s, l) /\ UNCHANGED hooks
  \/ \E s \in OneStore, l \in Listeners, stale \in BOOLEAN :
        (Idle \/ l \in BodyTargets) /\ Unsubscribe(s, l, stale) /\ UNCHANGED hooks

SpecListeners == InitListeners /\ [][NextListeners]_vars

\* JavaScript runs a call to completion: the loop takes its next step, a
\* listener that is running comes to its end, and an exhausted loop returns.
FairLoop ==
  /\ WF_vars(Invoke /\ UNCHANGED hooks)
  /\ WF_vars((ListenerReturn \/ ListenerThrow) /\ UNCHANGED hooks)
  /\ WF_vars(Return /\ UNCHANGED hooks)

SpecListenersFair == SpecListeners /\ FairLoop

\* Components that call useKeeper render, render again and unmount.
InitKeeper == InitOf({Num(1)}) /\ NoHooks

NextKeeper ==
  \/ \E c \in Components, g \in Generators : KeeperRender(c, g)
  \/ \E c \in Components : KeeperUnmount(c)

SpecKeeper == InitKeeper /\ [][NextKeeper]_vars

\* The counter: a store created with 0, the subscribers A and B attached and
\* detached from the top level, sets issued one after the other, each
\* listener reading the store or not and returning; sets and notifications
\* are counted.
CounterArgLists == {<<>>, <<fnInc>>, <<Num(0)>>, <<undefined>>}

InitCounter ==
  /\ impl \in OneImpl
  /\ initialState = [s \in Stores |-> Num(0)]
  /\ listeners = [s \in Stores |-> <<>>]
  /\ stack = <<>>
  /\ held = [s \in Stores |-> {}]
  /\ called = [s \in Stores |-> {}]
  /\ committed = initialState
  /\ reg = [s \in Stores |-> {}]
  /\ twice = [s \in Stores |-> {}]
  /\ tally = [NoTally EXCEPT !.on = TRUE]
  /\ ev = NoEv
  /\ NoHooks

NextCounter ==
  \/ \E s \in OneStore, args \in CounterArgLists :
        /\ Idle
        /\ Len(args) = 1 => \A l \in Listeners : tally.sets[s][l] < MaxSets
        /\ Call(s, args)
        /\ UNCHANGED hooks
  \/ \E s \in OneStore : InBody /\ Call(s, <<>>) /\ UNCHANGED hooks
  \/ Invoke /\ UNCHANGED hooks
  \/ ListenerReturn /\ UNCHANGED hooks
  \/ Return /\ UNCHANGED hooks
  \/ \E s \in OneStore, l \in CounterListeners : Idle /\ Subscribe(s, l) /\ UNCHANGED hooks
  \/ \E s \in OneStore, l \in CounterListeners : Idle /\ Unsubscribe(s, l, FALSE) /\ UNCHANGED hooks

SpecCounter == InitCounter /\ [][NextCounter]_vars

\* A component that calls usePeek mounts, its store is called from outside,
\* it renders again and unmounts.
InitPeek ==
  /\ InitOf({PeekInitial})
  /\ impl = [s \in Stores |-> "keep.ts"]
  /\ NoHooks

NextPeek ==
  \/ \E c \in PeekInstances : PeekMount(c)
  \/ \E c \in PeekInstances : PeekEffect(c)
  \/ \E c \in PeekInstances, args \in CounterArgLists : PeekCall(c, args)
  \/ \E c \in PeekInstances, m \in ExtensionResult : PeekCallMethod(c, m)
  \/ Invoke /\ UNCHANGED hooks
  \/ \E c \in PeekInstances : PeekDispatch(c)
  \/ Return /\ UNCHANGED hooks
  \/ \E c \in PeekInstances, parent \in BOOLEAN : PeekRender(c, parent)
  \/ \E c \in PeekInstances : PeekUnmount(c)

SpecPeek == InitPeek /\ [][NextPeek]_vars

\* React runs the effects of a committed render and the renders it has
\* scheduled, and a notification loop runs to its end; the application and
\* the parent need not do anything.
FairPeek ==
  /\ \A c \in PeekInstances : SF_vars(PeekEffect(c))
  /\ \A c \in PeekInstances : SF_vars(PeekRender(c, FALSE))
  /\ \A c \in PeekInstances : WF_vars(PeekDispatch(c))
  /\ WF_vars(Invoke /\ UNCHANGED hooks)
  /\ WF_vars(Return /\ UNCHANGED hooks)

SpecPeekFair == SpecPeek /\ FairPeek

\* Two components read one store, made by either implementation, with
\* useKeep(store) or store.use(); the application sets the store from outside.
UseArgLists == {<<>>, <<fnInc>>, <<Num(0)>>, <<undefined>>}

InitUse == InitOf({Num(0)}) /\ NoHooks

NextUse ==
  \/ \E c \in Components, s \in OneStore, method \in BOOLEAN : UseMount(c, s, method)
  \/ \E c \in Components : UseEffect(c)
  \/ \E s \in OneStore, args \in UseArgLists : UseCall(s, args)
  \/ Invoke /\ UNCHANGED hooks
  \/ \E c \in Components : UseHandleStoreChange(c)
  \/ Return /\ UNCHANGED hooks
  \/ \E c \in Components, parent \in BOOLEAN : UseRender(c, parent)
  \/ \E s \in OneStore : UseServerRender(s)
  \/ \E c \in Components : UseUnmount(c)

SpecUse == InitUse /\ [][NextUse]_vars

\* The host runs the effects of a committed render and the renders it has
\* scheduled, and a notification loop runs to its end.
FairUse ==
  /\ \A c \in Components : SF_vars(UseEffect(c))
  /\ \A c \in Components : SF_vars(UseRender(c, FALSE))
  /\ \A c \in Components : WF_vars(UseHandleStoreChange(c))
  /\ WF_vars(Invoke /\ UNCHANGED hooks)
  /\ WF_vars(Return /\ UNCHANGED hooks)

SpecUseFair == SpecUse /\ FairUse

\* The application makes a store of main.ts or keep.ts with one argument or
\* with a mapping, extends it, subscribes through the property and calls it.
ExtendValues == {Num(0), null}
ExtendArgLists == {<<>>, <<fnInc>>, <<Num(0)>>}
FactoryArgs ==
  {<<v>> : v \in ExtendValues} \cup {<<v, k>> : v \in ExtendValues, k \in Mappings}

InitExtend ==
  /\ InitOf({Num(0)})
  /\ keeper = [c \in Components |-> NoKeeper]
  /\ made = 0
  /\ peek = [c \in Components |-> NoPeek]
  /\ ukeep = [c \in Components |-> NoUse]
  /\ changed = FALSE
  /\ props = [s \in Stores |-> NotMade]

NextExtend ==
  \/ \E s \in OneStore, args \in FactoryArgs : Create(s, args)
  \/ \E s \in OneStore, k \in Mappings : Assign(s, k)
  \/ \E s \in OneStore, l \in CounterListeners : SubscribeProperty(s, l)
  \/ \E s \in OneStore, l \in CounterListeners :
        Idle /\ Unsubscribe(s, l, FALSE) /\ UNCHANGED hooks
  \/ \E s \in OneStore, args \in ExtendArgLists :
        Idle /\ Made(s) /\ Call(s, args) /\ UNCHANGED hooks
  \/ Invoke /\ UNCHANGED hooks
  \/ ListenerReturn /\ UNCHANGED hooks
  \/ Return /\ UNCHANGED hooks

SpecExtend == InitExtend /\ [][NextExtend]_vars

\* Re-entrancy: the listeners A and B, subscribed from the top level, read
\* and set the store they are subscribed to while it notifies them, the set
\* calls nested up to MaxDepth deep; sets and notifications are counted.
NestedArgLists == {<<>>, <<fnInc>>, <<Num(0)>>, <<undefined>>}

NextNested ==
  \/ \E s \in OneStore, args \in NestedArgLists :
        /\ Idle
        /\ Len(args) = 1 => \A l \in Listeners : tally.sets[s][l] < MaxSets
        /\ Call(s, args)
        /\ UNCHANGED hooks
  \/ \E s \in OneStore, args \in NestedArgLists :
        /\ InBody
        /\ Len(args) = 1 => /\ Len(stack) < MaxDepth
                            /\ \A l \in Listeners : tally.sets[s][l] < MaxSets
        /\ Call(s, args)
        /\ UNCHANGED hooks
  \/ Invoke /\ UNCHANGED hooks
  \/ ListenerReturn /\ UNCHANGED hooks
  \/ Return /\ UNCHANGED hooks
  \/ \E s \in OneStore, l \in CounterListeners : Idle /\ Subscribe(s, l) /\ UNCHANGED hooks
  \/ \E s \in OneStore, l \in CounterListeners : Idle /\ Unsubscribe(s, l, FALSE) /\ UNCHANGED hooks

SpecNested == InitCounter /\ [][NextNested]_vars

\* Two stores, made by two calls of the one or the other factory; the
\* application calls them, and subscribes the same listener functions to one
\* or to both, from the top level.
TwoArgLists == {<<>>, <<Num(1)>>, <<undefined>>}
\* The listener A is subscribed to either store, B to the second only.
TwoSubscriptions == {<<"A", "L1">>, <<"B", "L1">>, <<"B", "L2">>}

InitTwo ==
  /\ \E im \in Impls : impl = [s \in Stores |-> im]
  /\ initialState = [s \in Stores |-> Num(0)]
  /\ listeners = [s \in Stores |-> <<>>]
  /\ stack = <<>>
  /\ held = [s \in Stores |-> {}]
  /\ called = [s \in Stores |-> {}]
  /\ committed = initialState
  /\ reg = [s \in Stores |-> {}]
  /\ twice = [s \in Stores |-> {}]
  /\ tally = NoTally
  /\ ev = NoEv
  /\ NoHooks

NextTwo ==
  \/ \E s \in Stores, args \in TwoArgLists : Idle /\ Call(s, args) /\ UNCHANGED hooks
  \/ Invoke /\ UNCHANGED hooks
  \/ ListenerReturn /\ UNCHANGED hooks
  \/ Return /\ UNCHANGED hooks
  \/ \E p \in TwoSubscriptions : Idle /\ Subscribe(p[1], p[2]) /\ UNCHANGED hooks
  \/ \E p \in TwoSubscriptions :
        Idle /\ Unsubscribe(p[1], p[2], FALSE) /\ UNCHANGED hooks

SpecTwo == InitTwo /\ [][NextTwo]_vars

\* ------------------------------------------------------------------ claims
\* A step that is a call of the store from the top level.
CallStep == stack = <<>> /\ ev'.op \in {"call", "returned", "updaterThrew"}

\* A call of the store with one argument has returned to its caller.
SetCallReturned == ev.op = "returned" /\ Len(ev.args) = 1

\* Each listener of the Set was invoked once by the call that returned, and
\* no other listener was.
NotifiedOnce ==
  \A l \in Listeners :
    ev.inv[l] = IF Has(listeners[ev.store], l) THEN 1 ELSE 0

\* The call that led here gave main.ts's store the one argument undefined.
UndefinedToMain ==
  /\ ev.op \in {"call", "returned"}
  /\ ev.args = <<undefined>>
  /\ impl[ev.store] = "main.ts"

KeepTsOnly == \A s \in Stores : impl[s] = "keep.ts"

\* C1: in both implementations a call with exactly one argument that is
\* undefined, null, 0, false or '' is a set to that value: the store holds it,
\* the call returns undefined and not the old value, and every subscribed
\* listener was notified once.
C1_FalsyArgumentIsSet ==
  (ev.op \in {"call", "returned"} /\ Len(ev.args) = 1 /\ ev.args[1] \in Falsy)
    => /\ initialState[ev.store] = ev.args[1]
       /\ ev.ret = undefined
       /\ (ev.op = "returned" /\ ~ev.mutated) => NotifiedOnce

\* C2: a get returns the value given to the factory while no set was made, and
\* afterwards the value the latest set that did not fail was to commit, a
\* literal object as a whole.
C2_GetReturnsLatestCommitted ==
  /\ \A s \in Stores : initialState[s] = committed[s]
  /\ (ev.op = "returned" /\ ev.args = <<>>) => ev.ret = committed[ev.store]

\* C3: s(f) with a function f that returns calls f exactly once, with the
\* current value v0, and commits f(v0); the value stays until the next call
\* that sets, and a get returns it.
C3_FunctionalUpdate ==
  [][/\ (CallStep /\ Len(ev'.args) = 1 /\ ev'.args[1] \in {fnInc, fnUndef})
          => /\ ev'.op = "call"
             /\ ev'.applied = <<initialState[ev'.store]>>
             /\ initialState'[ev'.store] =
                  Apply(ev'.args[1], initialState[ev'.store]).val
     /\ (CallStep /\ ev'.args = <<>>)
          => /\ ev'.op = "returned"
             /\ ev'.ret = initialState'[ev'.store]
             /\ initialState' = initialState
     /\ ~CallStep => initialState' = initialState]_vars

\* An updater was applied to 1 and the store now holds 2.
C3_Witness ==
  /\ ev.op = "call"
  /\ ev.args = <<fnInc>>
  /\ ev.applied = <<Num(1)>>
  /\ initialState[ev.store] = Num(2)

\* C4: with N listeners subscribed and no subscribe or unsubscribe during the
\* pass, a call with one argument invokes each of the N exactly once (and no
\* other listener).
C4_EveryListenerOnce ==
  (SetCallReturned /\ ~ev.mutated) => NotifiedOnce

\* C5: when the updater throws, the call ends by that exception, the value,
\* the listeners and the calls in progress are as before (no notification loop
\* was entered, so no listener was invoked).
C5_UpdaterThrowAtomic ==
  [][(CallStep /\ Len(ev'.args) = 1 /\ ev'.args[1] = fnThrow)
       => /\ ev'.op = "updaterThrew"
          /\ ev'.inv = NoInv
          /\ UNCHANGED <<initialState, listeners, stack>>]_vars

\* A set with a throwing updater failed on a store that has a listener and a
\* value other than undefined.
C5_Witness ==
  /\ ev.op = "updaterThrew"
  /\ listeners[ev.store] # <<>>
  /\ initialState[ev.store] = objA

\* C6: a listener whose unsubscribe function was called is invoked by no set
\* until it is subscribed again, and every listener still subscribed is
\* invoked by every call with one argument.
C6_UnsubscribedNotInvoked ==
  /\ ev.op = "invoke" => ev.l \in reg[ev.store]
  /\ SetCallReturned => \A l \in reg[ev.store] : ev.inv[l] >= 1

\* C7: calling an unsubscribe function leaves the registration and the order
\* of every other listener as they were, and the Set as a whole when its
\* listener is not registered (as on the second of two calls in a row).
C7_UnsubscribeIdempotent ==
  [][ev'.op = "unsubscribe"
       => LET s == ev'.store
              l == ev'.l
              Others(L) == SelectSeq(L, LAMBDA m : m # l)
          IN /\ Others(listeners'[s]) = Others(listeners[s])
             /\ ~Has(listeners[s], l) => listeners'[s] = listeners[s]
             /\ \A o \in Stores \ {s} : listeners'[o] = listeners[o]]_vars

\* An unsubscribe function was called again while its listener was not
\* registered and another listener was.
C7_Witness ==
  /\ ev.op = "unsubscribe"
  /\ ev.stale
  /\ ~ev.was
  /\ listeners[ev.store] # <<>>

\* C8: an unsubscribe function that has been called leaves the listener Set
\* unchanged on every further call, also when its listener was subscribed
\* again in between.
C8_StaleUnsubscribeIsNoOp ==
  [][(ev'.op = "unsubscribe" /\ ev'.stale) => listeners' = listeners]_vars

\* C9: a listener subscribed twice is registered once: a call with one
\* argument invokes it exactly once, and after either unsubscribe function is
\* called it is not in the Set.
C9_DoubleSubscribeSingleRegistration ==
  /\ \A s \in Stores : \A l \in twice[s] :
       Cardinality({i \in 1..Len(listeners[s]) : listeners[s][i] = l}) = 1
  /\ (SetCallReturned /\ ~ev.mutated) => \A l \in twice[ev.store] : ev.inv[l] = 1
  /\ ev.op = "unsubscribe" => ~Has(listeners[ev.store], ev.l)

\* C10, first half: no set call invokes a listener more than once, also when
\* listeners subscribe and unsubscribe during the notification pass.
C10_InvokedAtMostOncePerSet ==
  \A i \in 1..Len(stack) : \A l \in Listeners : stack[i].inv[l] <= 1

\* C10, second half: every listener in the Set when a call with one argument
\* returns was invoked exactly once by that call.
C10_RegisteredAtReturnInvokedOnce ==
  SetCallReturned =>
    \A l \in Listeners : Has(listeners[ev.store], l) => ev.inv[l] = 1

\* What remains of C1, C2, C4, C6, C9 and the second half of C10 apart from
\* main.ts's reading of the argument undefined: each holds for the stores of
\* keep.ts, and C1, C4, C6 and C9 for every other call of main.ts's store.
C1_ApartFromUndefinedToMain == UndefinedToMain \/ C1_FalsyArgumentIsSet
C2_OfKeepTs == KeepTsOnly => C2_GetReturnsLatestCommitted
C4_ApartFromUndefinedToMain == UndefinedToMain \/ C4_EveryListenerOnce
C6_ApartFromUndefinedToMain == UndefinedToMain \/ C6_UnsubscribedNotInvoked
C9_ApartFromUndefinedToMain == UndefinedToMain \/ C9_DoubleSubscribeSingleRegistration
C10_RegisteredAtReturnInvoked ==
  (SetCallReturned /\ ~UndefinedToMain) =>
    \A l \in Listeners : Has(listeners[ev.store], l) => ev.inv[l] >= 1

\* C11: every set call returns (or ends by what a listener throws): a
\* notification pass whose listeners each come to their end and call no set
\* terminates, also when they subscribe and unsubscribe during the pass.
C11_SetCallReturns == (stack # <<>>) ~> (stack = <<>>)

\* C12: a pass that saw a listener deleted from the Set skips no listener
\* that was in the Set from the start of the pass on: each one the iterator
\* has passed was invoked, and when the set call returns each one was.
C12_RemovalKeepsOthersNotified ==
  /\ \A i \in 1..Len(stack) :
       stack[i].removed =>
         \A k \in stack[i].kept :
           IndexOf(listeners[stack[i].store], k) <= stack[i].idx
             => stack[i].inv[k] >= 1
  /\ (SetCallReturned /\ ev.removed) => \A l \in ev.kept : ev.inv[l] >= 1

\* A pass ended in which a listener the iterator had passed was deleted while
\* another one, registered throughout, had still to be invoked.
C12_Witness ==
  /\ SetCallReturned
  /\ ev.removed
  /\ \E l \in Listeners :
       /\ ev.inv[l] = 1
       /\ ~Has(listeners[ev.store], l)
       /\ \E k \in ev.kept :
            IndexOf(listeners[ev.store], k) >= 1 /\ ev.inv[k] = 1 /\ k # l
  /\ Cardinality(ev.kept) = 2

\* C13: in the state right after a call with one argument returns, its
\* notification pass is over (no loop of it is left running) and every
\* listener subscribed to the store was invoked by it.
C13_NotifiedBeforeReturn ==
  SetCallReturned =>
    /\ stack = <<>>
    /\ \A l \in Elems(listeners[ev.store]) : ev.inv[l] >= 1

\* What remains of C13 apart from main.ts's reading of the argument undefined.
C13_ApartFromUndefinedToMain == UndefinedToMain \/ C13_NotifiedBeforeReturn

\* C14: K sets issued one after the other give each listener subscribed
\* throughout exactly K notifications, one within each set (so in the order
\* of the sets), a set of the value the store holds included.
C14_KSetsKNotifications ==
  \A s \in Stores : \A l \in Elems(listeners[s]) :
    /\ Idle => tally.inv[s][l] = tally.sets[s][l]
    /\ tally.inv[s][l] \in {tally.sets[s][l] - 1, tally.sets[s][l]}

\* What remains of C14 apart from main.ts's reading of the argument undefined.
C14_ApartFromUndefinedToMain == tally.undef \/ C14_KSetsKNotifications

\* The scenario of C14: after three increments by updater of a counter
\* created with 0, with A and B subscribed, the value is 3 and A and B have
\* three notifications each.
C14_CounterScenario ==
  \A s \in Stores :
    (/\ Idle
     /\ tally.incOnly
     /\ \A l \in CounterListeners : tally.sets[s][l] = 3)
      => /\ initialState[s] = Num(3)
         /\ \A l \in CounterListeners : tally.inv[s][l] = 3

\* The scenario of C14 has happened.
C14_ScenarioReached ==
  \E s \in Stores :
    /\ Idle
    /\ tally.incOnly
    /\ \A l \in CounterListeners : tally.sets[s][l] = 3 /\ tally.inv[s][l] = 3
    /\ initialState[s] = Num(3)

\* C15: a call whose one argument is a function never stores the function:
\* it calls it (once) and, when it returns, the store holds what the contract
\* of an update gives, its result for the value held before; no store whose
\* initial value and whose updaters' results are no functions holds a function.
C15_FunctionIsUpdater ==
  /\ [](\A s \in Stores : initialState[s].t # "function")
  /\ [][(CallStep /\ Len(ev'.args) = 1 /\ ev'.args[1].t = "function")
          => /\ ev'.op \in {"call", "updaterThrew"}
             /\ Len(ev'.applied) = 1
             /\ ev'.op = "call" =>
                  /\ initialState'[ev'.store] = committed'[ev'.store]
                  /\ initialState'[ev'.store] =
                       Apply(ev'.args[1], ev'.applied[1]).val]_vars

\* The updater () => undefined was given to a store holding an object, and
\* the store holds undefined.
C15_Witness ==
  /\ ev.op = "call"
  /\ ev.args = <<fnUndef>>
  /\ ev.applied = <<objA>>
  /\ initialState[ev.store] = undefined

\* C16: a call with no argument returns the value and changes nothing: the
\* value, the Set of listeners and the loops in progress are as before, and
\* no listener is invoked.
C16_GetHasNoSideEffects ==
  [][(ev'.op \in {"call", "returned", "updaterThrew"} /\ ev'.args = <<>>)
       => /\ ev'.op = "returned"
          /\ ev'.ret = initialState[ev'.store]
          /\ ev'.inv = NoInv
          /\ UNCHANGED <<initialState, listeners, stack, tally>>]_vars

\* A listener read the store during a notification pass.
C16_Witness ==
  /\ ev.op = "returned"
  /\ ev.args = <<>>
  /\ ev.ret = Num(1)
  /\ InBody
  /\ Len(listeners[ev.store]) = 2

\* C17: however often an instance has rendered, its generator was called
\* exactly once and every render returned what the first one did, the value
\* the ref holds; two instances given () => ++n hold different values.
C17_GeneratorOncePerInstance ==
  /\ \A c \in Components :
       keeper[c].alive =>
         /\ keeper[c].calls = 1
         /\ keeper[c].ret = keeper[c].first
         /\ keeper[c].current = keeper[c].first
  /\ \A c, d \in Components :
       (/\ c # d
        /\ keeper[c].alive /\ keeper[c].gen = genCounter
        /\ keeper[d].alive /\ keeper[d].gen = genCounter)
         => keeper[c].current # keeper[d].current

\* Two instances given () => ++n have rendered three times each.
C17_Witness ==
  \A c \in Components :
    /\ keeper[c].alive
    /\ keeper[c].gen = genCounter
    /\ keeper[c].renders = 3
    /\ keeper[c].calls = 1

\* C18: an instance whose generator returns undefined, null, 0 or false has
\* called it exactly once however often it rendered, and its ref holds that
\* result and not the marker.
C18_FalsyResultIsRetained ==
  \A c \in Components :
    (keeper[c].alive /\ Generate(keeper[c].gen, 0) \in Falsy)
      => /\ keeper[c].calls = 1
         /\ keeper[c].current = Generate(keeper[c].gen, 0)
         /\ keeper[c].current # UNINITIALIZED
         /\ keeper[c].ret = keeper[c].current

\* An instance whose generator returns undefined has rendered three times.
C18_Witness ==
  \E c \in Components :
    /\ keeper[c].alive
    /\ keeper[c].gen = fnUndef
    /\ keeper[c].renders = 3
    /\ keeper[c].ret = undefined

\* C19: the store that usePeek(initialValue, extension) returns has every
\* method that extension returns, and calling one performs its set (no call
\* of one fails for want of the method).
C19_PeekStoreIsExtended ==
  /\ \A c \in PeekInstances :
       peek[c].phase # "unmounted" => ExtensionResult \subseteq peek[c].props
  /\ ev.op # "typeError"

\* The value the hook returned last is not the value of the store.
PeekStale(c) ==
  /\ peek[c].phase \in {"rendered", "mounted"}
  /\ peek[c].ret # initialState[peek[c].store]

\* C20: whenever a set has left the value that the hook of a mounted
\* instance returned behind the store's, a render follows after which the
\* hook has returned the store's value (or the instance unmounts).
C20_EventuallyRendersLatest ==
  \A c \in PeekInstances : PeekStale(c) ~> ~PeekStale(c)

\* What remains of C20 for the sets made after the effect has subscribed.
C20_AfterSubscription ==
  \A c \in PeekInstances :
    (PeekStale(c) /\ ~peek[c].early) ~> (~PeekStale(c) \/ peek[c].early)

\* C21: of two instances of usePeek, a call of the store of one (a get, a
\* set, its increment, and the notification that follows) leaves the other's
\* hook state, value and listeners as they were and invokes no listener of it.
C21_PeekStoresIndependent ==
  [][\A c, d \in PeekInstances :
       (/\ c # d
        /\ peek[c].phase # "unmounted"
        /\ ev'.store = peek[c].store
        /\ ev'.op \in {"call", "returned", "updaterThrew", "typeError",
                       "invoke", "listenerReturn"})
         => /\ peek'[d] = peek[d]
            /\ initialState'[PeekStore(d)] = initialState[PeekStore(d)]
            /\ listeners'[PeekStore(d)] = listeners[PeekStore(d)]
            /\ ev'.op = "invoke" => ev'.l # PeekListener(d)]_vars

\* Both instances are mounted, the store of the first was incremented and has
\* notified its listener; the second has its initial value and no dispatch.
C21_Witness ==
  /\ \A c \in PeekInstances : peek[c].phase = "mounted"
  /\ initialState[PeekStore("c1")] = Num(1)
  /\ peek["c1"].queue
  /\ initialState[PeekStore("c2")] = PeekInitial
  /\ peek["c2"].ret = PeekInitial
  /\ ~peek["c2"].queue

\* C22: the store of an instance of usePeek holds the hook's listener, once,
\* exactly while the instance is mounted with its effect run; after the
\* unmount it holds none and a set on it dispatches nothing.
C22_SubscribedOncePerMount ==
  \A c \in PeekInstances :
    /\ peek[c].phase = "mounted" =>
         listeners[PeekStore(c)] = <<PeekListener(c)>>
    /\ peek[c].phase \in {"rendered", "gone"} =>
         listeners[PeekStore(c)] = <<>>
    /\ peek[c].phase = "gone" => ~peek[c].queue

\* A set was made on the store of an instance that had mounted and unmounted.
C22_Witness ==
  /\ peek["c1"].phase = "gone"
  /\ held[PeekStore("c1")] = {PeekListener("c1")}
  /\ ev.op = "returned"
  /\ ev.args = <<fnInc>>
  /\ ev.store = PeekStore("c1")
  /\ ev.inv = NoInv

\* The instance of useKeep shows a value that is not the store's.
UseStale(c) ==
  /\ ukeep[c].phase \in {"rendered", "mounted"}
  /\ ukeep[c].value # Snapshot(ukeep[c].store)

\* No set is in progress and the host has nothing left to do.
UseSettled ==
  /\ Idle
  /\ \A c \in Components : ukeep[c].phase # "rendered" /\ ~ukeep[c].force

\* C23: every component mounted with useKeep(store) comes to render the
\* store's latest value after any set; once no set is in progress and the host
\* has run what it scheduled, all mounted subscribers of the store show the
\* value store().
C23_UseKeepRendersLatest ==
  /\ [](UseSettled => \A c \in Components : ~UseStale(c))
  /\ \A c \in Components : UseStale(c) ~> ~UseStale(c)

\* Both components show the value 2 after a render that the host scheduled.
C23_Witness ==
  /\ UseSettled
  /\ \A c \in Components : ukeep[c].phase = "mounted" /\ ukeep[c].value = Num(2)
  /\ Snapshot("A") = Num(2)
  /\ ev.op = "rerender"

\* C24: a subscribed instance of usePeek has a render scheduled by a set if
\* and only if that set changed the store's value: no set that commits the
\* value the store has schedules a render, and a set that changed the value
\* has scheduled one for every mounted instance of the store when it returns.
C24_RerenderIffChanged ==
  [][/\ \A c \in PeekInstances : (peek'[c].queue /\ ~peek[c].queue) => changed'
     /\ (ev'.op = "returned" /\ Len(ev'.args) = 1 /\ changed')
          => \A c \in PeekInstances :
               (peek[c].phase = "mounted" /\ peek[c].store = ev'.store)
                 => peek'[c].queue]_vars

\* The same of the instances of useKeep, which holds: the host's listener
\* schedules a render only when the snapshot is not the rendered one.
C24_OfUseKeep ==
  [][/\ \A c \in Components :
          (InBody /\ ukeep'[c].force /\ ~ukeep[c].force) => changed'
     /\ (ev'.op = "returned" /\ Len(ev'.args) = 1 /\ changed')
          => \A c \in Components :
               (ukeep[c].phase = "mounted" /\ ukeep[c].store = ev'.store)
                 => ukeep'[c].force]_vars

\* C25: what the host holds of every instance, whether it called
\* useKeep(store) or store.use(), is the store's own subscribe and the store
\* as client and as server snapshot, so the two snapshots are equal in every
\* state; every render, on the client or the server, returns the store's
\* current value.
C25_AdapterArguments ==
  /\ \A c \in Components :
       ukeep[c].phase # "unmounted"
         => /\ ukeep[c].args.subscribe = "own"
            /\ ukeep[c].args.getSnapshot = ukeep[c].store
            /\ ukeep[c].args.getServerSnapshot = ukeep[c].store
            /\ Snapshot(ukeep[c].args.getSnapshot)
                 = Snapshot(ukeep[c].args.getServerSnapshot)
  /\ ev.op \in {"use", "useKeep", "render", "rerender", "serverRender"}
       => ev.ret = initialState[ev.store]
  /\ ev.op \in {"use", "useKeep", "render", "rerender"}
       => ukeep[ev.l].value = ev.ret

\* An instance has just rendered with store.use() what another, mounted with
\* useKeep(store), shows: the value 2 that the store has come to.
C25_Witness ==
  /\ ev.op = "use" /\ ev.l = "c2" /\ ev.ret = Num(2)
  /\ ukeep["c1"].phase = "mounted" /\ ukeep["c1"].value = Num(2)
  /\ ~ukeep["c1"].force

\* The keys of the mapping given to the operation that led here that name a
\* read-only property of a function.
ReadOnlyKeyGiven == \E i \in 1..Len(ev.keys) : ev.keys[i] = "name"

\* C26: a call of the store's assign returns the store it was called on, and
\* the store then has every key of the mapping as a property holding the
\* mapping's function; there is no second store, the reference returned is
\* the store's.
C26_AssignReturnsExtendedStore ==
  ev.op \in {"assigned", "assignThrew"}
    => /\ ev.op = "assigned"
       /\ ev.ret = StoreRef(ev.store)
       /\ \A i \in 1..Len(ev.keys) : props[ev.store][ev.keys[i]] = "given"

\* The same for the mappings none of whose keys is a read-only property of
\* functions, which holds.
C26_ForWritableKeys ==
  (ev.op \in {"assigned", "assignThrew"} /\ ~ReadOnlyKeyGiven)
    => /\ ev.op = "assigned"
       /\ ev.ret = StoreRef(ev.store)
       /\ \A i \in 1..Len(ev.keys) : props[ev.store][ev.keys[i]] = "given"

\* C27: a store that main.ts's keep(initialValue, methods) has made has the
\* value, the empty listener set and the properties of the store that
\* keep(initialValue).assign(methods) gives, the reference returned is the
\* store, and the one throws exactly when the other does.
C27_TwoArgumentsIsAssign ==
  (ev.op \in {"keep", "keepThrew"} /\ impl[ev.store] = "main.ts")
    => LET one == keep_main(ev.store, ev.args)
           r == assign(one.ret, one.props, Mapping(ev.keys))
       IN /\ (ev.op = "keepThrew") = (one.threw \/ r.threw)
          /\ ev.op = "keep"
               => /\ initialState[ev.store] = one.initialState
                  /\ listeners[ev.store] = one.listeners
                  /\ props[ev.store] = r.props
                  /\ ev.ret = r.ret

\* keep(null, { increment }) has returned a store of main.ts that has the
\* method.
C27_Witness ==
  /\ ev.op = "keep" /\ ev.args = <<null>> /\ ev.keys = <<"increment">>
  /\ impl[ev.store] = "main.ts"
  /\ props[ev.store]["increment"] = "given"
  /\ initialState[ev.store] = null

\* C29: a call of assign, whatever the keys of its mapping, leaves the store's
\* value and listener set as they were and invokes no listener, and
\* afterwards store.subscribe(l) still puts l into the store's listener set
\* and a get still returns the store's value.
C29_ExtensionKeepsInvariants ==
  [][/\ ev'.op \in {"assigned", "assignThrew"}
          => /\ initialState' = initialState
             /\ listeners' = listeners
             /\ stack' = stack
     /\ (ev'.op \in {"subscribe", "givenCalled"} /\ ev'.l \in Listeners)
          => Has(listeners'[ev'.store], ev'.l)
     /\ (ev'.op = "returned" /\ ev'.args = <<>>)
          => ev'.ret = initialState[ev'.store]]_vars

\* The part that holds: the call of assign itself touches neither the value
\* nor the listener set nor a running loop, and the calls of the store
\* function do not depend on its properties.
C29_AssignTouchesNoState ==
  [][/\ ev'.op \in {"assigned", "assignThrew"}
          => /\ initialState' = initialState
             /\ listeners' = listeners
             /\ stack' = stack
     /\ (ev'.op = "returned" /\ ev'.args = <<>>)
          => ev'.ret = initialState[ev'.store]]_vars

C30_ListenerThrowPropagates ==
  ev.op = "listenerThrew"
    => /\ stack = <<>>
       /\ Has(listeners[ev.store], ev.l)
       /\ \A j \in 1..Len(listeners[ev.store]) :
            ev.inv[listeners[ev.store][j]]
              = IF j <= IndexOf(listeners[ev.store], ev.l) THEN 1 ELSE 0
       /\ initialState[ev.store] = committed[ev.store]
       /\ ev.args[1].t # "function" => initialState[ev.store] = ev.args[1]

\* The second of three listeners of main.ts's store threw during a set to
\* null: the third was not invoked and the store holds null.
C30_Witness ==
  /\ ev.op = "listenerThrew" /\ ev.l = "L2" /\ ev.args = <<null>>
  /\ listeners[ev.store] = <<"L1", "L2", "L3">>
  /\ ev.inv = [NoInv EXCEPT !["L1"] = 1, !["L2"] = 1]
  /\ initialState[ev.store] = null
  /\ impl[ev.store] = "main.ts"

\* C31: the store that usePeek returns is the same on every render of an
\* instance: the hook state of an instance that has rendered holds the store
\* made at its first render, and every later render returns that store.
C31_PeekStoreKept ==
  \A c \in PeekInstances :
    /\ peek[c].phase # "unmounted" => peek[c].store = PeekStore(c)
    /\ (ev.op = "render" /\ ev.l = c /\ peek[c].phase = "mounted")
         => ev.store = PeekStore(c) /\ ev.ret = peek[c].value

\* The first instance has rendered again after two dispatches and shows 2,
\* read from the store of its first render.
C31_Witness ==
  /\ ev.op = "render" /\ ev.l = "c1" /\ ev.store = PeekStore("c1")
  /\ peek["c1"].phase = "mounted"
  /\ peek["c1"].value = Num(2)
  /\ initialState[PeekStore("c1")] = Num(2)

\* C32: keep.ts's and main.ts's store functions are equivalent: whichever
\* implementation made the store, a call with any arguments, undefined
\* included, in any state gives in the other implementation the same value
\* returned, the same value stored and the same decision to notify (the
\* subscribe function and the loop are the same code in both).
C32_ImplementationsEquivalent ==
  [][CallStep
       => state_keep(ev'.args, initialState[ev'.store])
            = state_main(ev'.args, initialState[ev'.store])]_vars

\* The same apart from the one argument undefined, which holds.
C32_ApartFromUndefined ==
  [][(CallStep /\ ev'.args # <<undefined>>)
       => state_keep(ev'.args, initialState[ev'.store])
            = state_main(ev'.args, initialState[ev'.store])]_vars

\* No step changes a loop below the innermost one: a nested set runs its
\* whole notification pass before the pass that issued it resumes.
NestedPassFirst ==
  \A i \in 1..(Len(stack) - 1) : i <= Len(stack') => stack'[i] = stack[i]

\* The outermost set has returned, every listener in the Set has been
\* invoked once per set issued since it subscribed, and the store holds the
\* value that the set issued last was to commit.
OncePerSetIssued ==
  (Idle /\ ev.op = "returned" /\ Len(ev.args) = 1)
    => /\ \A l \in Listeners :
            Has(listeners[ev.store], l)
              => tally.inv[ev.store][l] = tally.sets[ev.store][l]
       /\ initialState[ev.store] = committed[ev.store]
       /\ GetBranch(initialState[ev.store]).ret = committed[ev.store]

\* C33: when listeners set the store during a notification pass, the nested
\* set commits and runs its whole pass before the outer pass resumes, and
\* when the outermost set returns every continuously subscribed listener has
\* been invoked once per set issued and a get returns the value of the set
\* issued last.
C33_NestedSetsComplete == []OncePerSetIssued /\ [][NestedPassFirst]_vars

\* The same while main.ts's store was not given the one argument undefined,
\* which holds.
C33_ApartFromUndefinedToMain ==
  [](~tally.undef => OncePerSetIssued) /\ [][NestedPassFirst]_vars

\* A nested set was made and the outermost set has returned: both listeners
\* were invoked twice for the two sets.
C33_NestedReached ==
  /\ Idle /\ ev.op = "returned" /\ Len(ev.args) = 1
  /\ ~tally.undef
  /\ listeners[ev.store] = <<"L1", "L2">>
  /\ \A l \in CounterListeners :
       tally.sets[ev.store][l] = 2 /\ tally.inv[ev.store][l] = 2
  /\ ev.inv["L1"] = 1
  /\ initialState[ev.store] = Num(0)

\* C34: of two stores made by separate calls of the factory, a call,
\* subscribe or unsubscribe on one, and the notification pass of its set,
\* leave the value and the listener set of the other as they were, and the
\* pass invokes only listeners in the Set of the store that was set, also
\* when a listener is subscribed to both.
C34_StoresIsolated ==
  [][\A s \in Stores :
       ev'.store = s
         => /\ \A o \in Stores \ {s} :
                 /\ initialState'[o] = initialState[o]
                 /\ listeners'[o] = listeners[o]
            /\ ev'.op = "invoke" => Has(listeners[s], ev'.l)]_vars

\* A is subscribed to both stores and B to the second only; a set of the
\* first store has returned having invoked A alone, and the second store
\* has its value.
C34_Witness ==
  /\ listeners["A"] = <<"L1">>
  /\ listeners["B"] = <<"L1", "L2">>
  /\ ev.op = "returned" /\ ev.store = "A" /\ ev.args = <<Num(1)>>
  /\ ev.inv = [NoInv EXCEPT !["L1"] = 1]
  /\ initialState["A"] = Num(1)
  /\ initialState["B"] = Num(0)

====
